---- MODULE Spec2Model ----
(***************************************************************************)
(* Model of stream_alert/rule_processor/pre_parsers.py (Python 2):         *)
(* StreamPreParsers.pre_parse_s3, _download_s3_object and the generator    *)
(* read_s3_file, together with the /tmp namespace they share.              *)
(*                                                                         *)
(* Every invocation i walks through the statements of the three methods;   *)
(* one step is one filesystem-visible operation (mkstemp, open, the fetch, *)
(* truncate, remove, exists), so that overlapping invocations interleave   *)
(* exactly where the operating system lets them.                           *)
(***************************************************************************)
EXTENDS Integers, Sequences, FiniteSets, TLC

(***************************************************************************)
(* Bounds of the model.                                                    *)
(***************************************************************************)
NumProcs == 2      \* overlapping invocations sharing /tmp
MaxLen   == 3      \* bytes of text in a remote object
MaxRand  == 2      \* distinct random parts tempfile.mkstemp can draw
MaxIter  == 2      \* read_s3_file calls a consumer makes on one path
MaxKeyLen == 5     \* characters of an object key in SpecKeys

Procs == 1..NumProcs

(***************************************************************************)
(* Bytes.  A file is a sequence of byte tokens.  The text alphabet has one *)
(* ordinary character and three of the characters str.rstrip() removes     *)
(* (VT stands for the vertical tab, which has no escape in a string).      *)
(* GZ, CRC and BAD are the gzip framing: the magic header, the good        *)
(* trailer and a damaged block; the payload between them is the stored     *)
(* (deflate "stored block") form of the text.                              *)
(***************************************************************************)
Alphabet   == {"a", " ", "\t", "\n"}
Whitespace == {" ", "\t", "\n", "\r", "\f", "VT"}

RECURSIVE SeqsUpTo(_)
SeqsUpTo(n) ==
  IF n = 0 THEN {<<>>}
  ELSE LET S == SeqsUpTo(n - 1)
       IN  S \cup {Append(s, c) : s \in {t \in S : Len(t) = n - 1}, c \in Alphabet}

Texts == SeqsUpTo(MaxLen)

Gzip(t)       == <<"GZ">> \o t \o <<"CRC">>
Damaged(t, j) == <<"GZ">> \o SubSeq(t, 1, j) \o <<"BAD">>

\* what the bucket may hold under a key: plain text, a gzip member, or a
\* gzip member damaged after j bytes of payload
Objects ==
  Texts \cup {Gzip(t) : t \in Texts}
        \cup UNION {{Damaged(t, j) : j \in 0..Len(t)} : t \in Texts}

ConcObjects == {<<"a", "\n">>}

(***************************************************************************)
(* Object keys and declared sizes an S3 event record may carry.            *)
(***************************************************************************)
Keys ==
  { <<"d", "/", "x", ".", "g", "z">>,
    <<"d", ".", "g", "z", "/", "x">>,
    <<"x", ".", "G", "Z">> }

\* every non-empty key of at most MaxKeyLen characters over the characters
\* that decide the branch: separator, dot, the letters of "gz", a capital
KeyAlphabet == {"/", ".", "g", "z", "G"}

RECURSIVE SeqsOver(_, _)
SeqsOver(A, n) ==
  IF n = 0 THEN {<<>>}
  ELSE LET S == SeqsOver(A, n - 1)
       IN  S \cup {Append(s, c) : s \in {t \in S : Len(t) = n - 1}, c \in A}

KeyStrings == SeqsOver(KeyAlphabet, MaxKeyLen) \ {<<>>}

MiB     == 1024 * 1024
Ceiling == 128 * MiB

Sizes     == {-1, 0, Ceiling, Ceiling + 1, 129 * MiB - 1, 129 * MiB}
ConcSizes == {0}

\* keys as the event record carries them, URL-escaped; they unquote to Keys
RawKeys ==
  { <<"d", "%", "2", "F", "x", ".", "g", "z">>,
    <<"d", ".", "g", "z", "/", "x">>,
    <<"x", "%", "2", "E", "G", "Z">> }

\* the fields pre_parse_s3 reads, in the order of lines 62-65, and the value
\* under 'size': an integer, or text that int() cannot convert
Fields == <<"awsRegion", "name", "key", "size">>

IntSize(n) == [kind |-> "int", val |-> n]
TextSize   == [kind |-> "text", val |-> 0]

Record(m, k, s) == [missing |-> m, key |-> k, size |-> s]

NoRecord == Record("none", <<>>, IntSize(0))

WellFormed(keys, sizes) ==
  {Record("none", k, IntSize(n)) : k \in keys, n \in sizes}

\* every record of Spec: the well-formed ones, one with each field absent,
\* and one whose size is not a number
Records ==
  WellFormed(RawKeys, Sizes)
    \cup {Record(Fields[n], <<"x">>, IntSize(0)) : n \in 1..Len(Fields)}
    \cup {Record("none", <<"x">>, TextSize)}

ConcRecords == WellFormed(Keys, ConcSizes)

KeyRecords == WellFormed(KeyStrings, {0})

(***************************************************************************)
(* Pure helpers.                                                           *)
(***************************************************************************)
\* key.replace('/', '-')
Replace(k) == [n \in 1..Len(k) |-> IF k[n] = "/" THEN "-" ELSE k[n]]

\* urllib.unquote(data): every %XX escape becomes the character it encodes.
\* The escapes of the model are %2F, %2E and %20; .decode('utf8') leaves
\* the ASCII characters of the model as they are.
IsEscape(a, b) == <<a, b>> \in {<<"2", "F">>, <<"2", "E">>, <<"2", "0">>}

Escaped(a, b) ==
  IF <<a, b>> = <<"2", "F">> THEN "/"
  ELSE IF <<a, b>> = <<"2", "E">> THEN "."
  ELSE " "

UnquoteNone(s) == s

RECURSIVE Unquote(_)
Unquote(s) ==
  IF s = <<>> THEN <<>>
  ELSE IF s[1] = "%" /\ Len(s) >= 3 /\ IsEscape(s[2], s[3])
  THEN <<Escaped(s[2], s[3])>> \o Unquote(SubSeq(s, 4, Len(s)))
  ELSE <<s[1]>> \o Unquote(Tail(s))

\* the random part of a mkstemp name
RandNames == <<"r1", "r2", "r3", "r4">>
Rands     == {RandNames[n] : n \in 1..MaxRand}

\* tempfile.mkstemp(suffix=suffix): gettempdir() + "/" + "tmp" + random + suffix
TmpPath(r, suffix) == <<"/", "t", "m", "p", "/", "t", "m", "p", r>> \o suffix

\* the names mkstemp can still create: it opens with O_CREAT | O_EXCL, so a
\* name that exists in the namespace is never returned
MkstempNamesNoExcl(fsys, suffix) == {TmpPath(r, suffix) : r \in Rands}

MkstempNames(fsys, suffix) ==
  {TmpPath(r, suffix) : r \in Rands} \ DOMAIN fsys

\* rightmost index of character c in p, 0 when absent (str.rfind + 1)
RFind(p, c) ==
  LET I == {n \in 1..Len(p) : p[n] = c}
  IN  IF I = {} THEN 0 ELSE CHOOSE n \in I : \A m \in I : m <= n

\* os.path.splitext(p)[1]: from the last dot of the last path component,
\* unless only dots precede it in that component
SplitExt(p) ==
  LET sep == RFind(p, "/")
      dot == RFind(p, ".")
  IN  IF dot > sep /\ \E n \in (sep + 1)..(dot - 1) : p[n] # "."
      THEN SubSeq(p, dot, Len(p))
      ELSE <<>>

Lower(c) == IF c = "G" THEN "g" ELSE IF c = "Z" THEN "z" ELSE c

IsGzBranchNoCase(p) ==
  LET e == SplitExt(p)
  IN  [n \in 1..Len(e) |-> Lower(e[n])] = <<".", "g", "z">>

\* line 102: extension == '.gz', a case-sensitive comparison
IsGzBranch(p) == SplitExt(p) = <<".", "g", "z">>

\* iteration over a file object: lines end after each "\n"; a last line
\* without "\n" is a line too
RECURSIVE FileLines(_)
FileLines(b) ==
  IF b = <<>> THEN <<>>
  ELSE LET N == {n \in 1..Len(b) : b[n] = "\n"}
       IN  IF N = {} THEN <<b>>
           ELSE LET e == CHOOSE n \in N : \A m \in N : n <= m
                IN  <<SubSeq(b, 1, e)>> \o FileLines(SubSeq(b, e + 1, Len(b)))

\* line.rstrip(): drops every trailing whitespace character
RECURSIVE RStripBoth(_)
RStripBoth(l) ==
  IF l = <<>> THEN <<>>
  ELSE IF l[Len(l)] \in Whitespace THEN RStripBoth(SubSeq(l, 1, Len(l) - 1))
  ELSE IF l[1] \in Whitespace THEN RStripBoth(Tail(l))
  ELSE l

RECURSIVE RStrip(_)
RStrip(l) ==
  IF l = <<>> THEN <<>>
  ELSE IF l[Len(l)] \in Whitespace THEN RStrip(SubSeq(l, 1, Len(l) - 1))
  ELSE l

\* what iterating gzip.open(path) produces from the bytes b: the lines it
\* can hand out and whether the read after them raises.  An empty file is
\* end of file; bytes without the magic header raise on the first read; a
\* damaged block raises once the complete lines before it are handed out.
GunzipLines(b) ==
  IF b = <<>> THEN [lines |-> <<>>, fail |-> FALSE]
  ELSE IF b[1] # "GZ" THEN [lines |-> <<>>, fail |-> TRUE]
  ELSE LET E == {n \in 2..Len(b) : b[n] \in {"CRC", "BAD"}}
       IN  IF E = {} THEN [lines |-> <<>>, fail |-> TRUE]
           ELSE LET e  == CHOOSE n \in E : \A m \in E : n <= m
                    pl == SubSeq(b, 2, e - 1)
                    ls == FileLines(pl)
                IN  IF b[e] = "CRC"
                    THEN [lines |-> ls, fail |-> FALSE]
                    ELSE [lines |-> SelectSeq(ls, LAMBDA l : l[Len(l)] = "\n"),
                          fail  |-> TRUE]

\* the two branches of read_s3_file over the bytes b of the file at path p
OpenLines(p, b) ==
  IF IsGzBranch(p) THEN GunzipLines(b)
  ELSE [lines |-> FileLines(b), fail |-> FALSE]

(***************************************************************************)
(* State.  Per invocation i:                                               *)
(*   pc          the statement the invocation is at                        *)
(*   key, size   the unquoted fields of the S3 event record                *)
(*   path        downloaded_s3_object, <<>> before mkstemp returned        *)
(*   err, site   the exception that reached the caller and where it rose   *)
(*   fetchCalls  calls of client.download_fileobj                          *)
(*   obj         the bytes the bucket held when they were fetched          *)
(*   iter        read_s3_file generators created over path                 *)
(*   src, buf    bytes of the file when the generator opened it; the lines *)
(*               still to hand out and whether the read after them raises  *)
(*   num, out    enumerate()'s counter; the pairs the consumer received    *)
(*   nTrunc, nRemove  completed truncations and removals of the file       *)
(*   logged      level of the log record of lines 116-119                  *)
(*   second      what next() answered on a generator that had ended        *)
(*   holds       the invocation created a file and did not yet remove it   *)
(*   raw         the S3 event record pre_parse_s3 was called with          *)
(*   ret         what pre_parse_s3 returned, <<>> before it returns        *)
(*   fds         the handles on the temp file the invocation has open:     *)
(*               "fd" from mkstemp, "data" from open(path, 'wb')           *)
(*   nOpen       completed open(path, 'wb') calls                          *)
(*   ops         what the current generator did, in order: "gzip.open" or  *)
(*               "open", "yield", "truncate", "remove", "exists"           *)
(* Shared: fs, the /tmp namespace, path -> [bytes, owner];                 *)
(*   foreign     an invocation wrote, truncated or removed a file that     *)
(*               another invocation created                                *)
(***************************************************************************)
VARIABLES pc, key, size, path, err, site, fetchCalls, obj, iter, src, buf,
          num, out, nTrunc, nRemove, logged, second, holds, fs, foreign,
          raw, ret, fds, nOpen, ops

vars == <<pc, key, size, path, err, site, fetchCalls, obj, iter, src, buf,
          num, out, nTrunc, nRemove, logged, second, holds, fs, foreign,
          raw, ret, fds, nOpen, ops>>

NoBuf == [lines |-> <<>>, fail |-> FALSE]

GenEnded == {"gen_done", "gen_raised", "gen_closed"}

Init ==
  /\ pc         = [i \in Procs |-> "idle"]
  /\ key        = [i \in Procs |-> <<>>]
  /\ size       = [i \in Procs |-> 0]
  /\ path       = [i \in Procs |-> <<>>]
  /\ err        = [i \in Procs |-> "none"]
  /\ site       = [i \in Procs |-> "none"]
  /\ fetchCalls = [i \in Procs |-> 0]
  /\ obj        = [i \in Procs |-> <<>>]
  /\ iter       = [i \in Procs |-> 0]
  /\ src        = [i \in Procs |-> <<>>]
  /\ buf        = [i \in Procs |-> NoBuf]
  /\ num        = [i \in Procs |-> 0]
  /\ out        = [i \in Procs |-> <<>>]
  /\ nTrunc     = [i \in Procs |-> 0]
  /\ nRemove    = [i \in Procs |-> 0]
  /\ logged     = [i \in Procs |-> "none"]
  /\ second     = [i \in Procs |-> "none"]
  /\ holds      = [i \in Procs |-> FALSE]
  /\ fs         = [p \in {} |-> <<>>]
  /\ foreign    = FALSE
  /\ raw        = [i \in Procs |-> NoRecord]
  /\ ret        = [i \in Procs |-> <<>>]
  /\ fds        = [i \in Procs |-> {}]
  /\ nOpen      = [i \in Procs |-> 0]
  /\ ops        = [i \in Procs |-> <<>>]

\* an exception leaves the method: the caller observes err, raised at site
Raise(i, state, e, s) ==
  /\ pc'   = [pc EXCEPT ![i] = state]
  /\ err'  = [err EXCEPT ![i] = e]
  /\ site' = [site EXCEPT ![i] = s]

\* invocation i touches the file at p: is it a file another one created?
Foreign(i, p) == p \in DOMAIN fs /\ fs[p].owner # i

(***************************************************************************)
(* pre_parse_s3, lines 61-70: read the fields of the record (KeyError on   *)
(* the first absent one), unquote bucket and key, convert the size with    *)
(* int() (ValueError on text), and call _download_s3_object.               *)
(***************************************************************************)
PreParseS3(i, records) ==
  /\ pc[i] = "idle"
  /\ \E r \in records :
       /\ raw' = [raw EXCEPT ![i] = r]
       /\ IF r.missing # "none"
          THEN /\ Raise(i, "failed", "KeyError", "pre_parse")
               /\ UNCHANGED <<key, size>>
          ELSE IF r.size.kind # "int"
          THEN /\ Raise(i, "failed", "ValueError", "pre_parse")
               /\ key' = [key EXCEPT ![i] = Unquote(r.key)]
               /\ UNCHANGED size
          ELSE /\ key'  = [key EXCEPT ![i] = Unquote(r.key)]
               /\ size' = [size EXCEPT ![i] = r.size.val]
               /\ pc'   = [pc EXCEPT ![i] = "size_check"]
               /\ UNCHANGED <<err, site>>
  /\ UNCHANGED <<path, fetchCalls, obj, iter, src, buf, num, out,
                 nTrunc, nRemove, logged, second, holds, fs, foreign,
                 ret, fds, nOpen, ops>>

(***************************************************************************)
(* _download_s3_object, lines 139-142: Python 2 integer division.          *)
(***************************************************************************)
SizeMb(s) == (s \div 1024) \div 1024

TooLarge(s) == SizeMb(s) > 128

\* the check placed after line 155: the file exists when the error is raised
SizeCheckAfterMkstemp(i) ==
  /\ pc[i] = "size_check"
  /\ IF TooLarge(size[i])
     THEN /\ Raise(i, "failed", "S3ObjectSizeError", "size_check")
          /\ \E p \in MkstempNames(fs, Replace(key[i])) :
               fs' = (p :> [bytes |-> <<>>, owner |-> i]) @@ fs
     ELSE /\ pc' = [pc EXCEPT ![i] = "mkstemp"]
          /\ UNCHANGED <<err, site, fs>>
  /\ UNCHANGED <<key, size, path, fetchCalls, obj, iter, src, buf, num, out,
                 nTrunc, nRemove, logged, second, holds, foreign,
                 raw, ret, fds, nOpen, ops>>

SizeCheck(i) ==
  /\ pc[i] = "size_check"
  /\ IF TooLarge(size[i])
     THEN Raise(i, "failed", "S3ObjectSizeError", "size_check")
     ELSE /\ pc' = [pc EXCEPT ![i] = "mkstemp"]
          /\ UNCHANGED <<err, site>>
  /\ UNCHANGED <<key, size, path, fetchCalls, obj, iter, src, buf, num, out,
                 nTrunc, nRemove, logged, second, holds, fs, foreign,
                 raw, ret, fds, nOpen, ops>>

(***************************************************************************)
(* lines 154-155: suffix = key.replace('/', '-'); mkstemp creates an empty *)
(* file under a name that did not exist and returns an open descriptor and *)
(* the path, or raises when it finds no name.  The descriptor is bound to  *)
(* "_" and no statement closes it.                                         *)
(***************************************************************************)
Mkstemp(i) ==
  /\ pc[i] = "mkstemp"
  /\ LET N == MkstempNames(fs, Replace(key[i]))
     IN  IF N = {}
         THEN /\ Raise(i, "failed", "IOError", "mkstemp")
              /\ UNCHANGED <<path, holds, fs, fds>>
         ELSE \E p \in N :
                /\ path'  = [path EXCEPT ![i] = p]
                /\ holds' = [holds EXCEPT ![i] = TRUE]
                /\ fs'    = (p :> [bytes |-> <<>>, owner |-> i]) @@ fs
                /\ fds'   = [fds EXCEPT ![i] = @ \cup {"fd"}]
                /\ pc'    = [pc EXCEPT ![i] = "open_wb"]
                /\ UNCHANGED <<err, site>>
  /\ UNCHANGED <<key, size, fetchCalls, obj, iter, src, buf, num, out,
                 nTrunc, nRemove, logged, second, foreign,
                 raw, ret, nOpen, ops>>

(***************************************************************************)
(* line 156: open(downloaded_s3_object, 'wb') truncates the file, creates  *)
(* it when it is missing, or raises IOError.                               *)
(***************************************************************************)
OpenWb(i) ==
  /\ pc[i] = "open_wb"
  /\ \/ /\ fs' = (path[i] :> [bytes |-> <<>>,
                              owner |-> IF path[i] \in DOMAIN fs
                                        THEN fs[path[i]].owner ELSE i]) @@ fs
        /\ foreign' = (foreign \/ Foreign(i, path[i]))
        /\ fds'   = [fds EXCEPT ![i] = @ \cup {"data"}]
        /\ nOpen' = [nOpen EXCEPT ![i] = @ + 1]
        /\ pc' = [pc EXCEPT ![i] = "fetch"]
        /\ UNCHANGED <<err, site>>
     \/ /\ Raise(i, "failed", "IOError", "open_wb")
        /\ UNCHANGED <<fs, foreign, fds, nOpen>>
  /\ UNCHANGED <<key, size, path, fetchCalls, obj, iter, src, buf, num, out,
                 nTrunc, nRemove, logged, second, holds, raw, ret, ops>>

\* where an exception of download_fileobj takes the invocation: out of the
\* method (line 159 is in no loop and no try block)
AfterFetchErrorRetry == "fetch"

AfterFetchError == "failed"

(***************************************************************************)
(* lines 157-164: one call of client.download_fileobj(bucket, key, data)   *)
(* inside the with block.  It writes the object's bytes into the file, or  *)
(* raises; the block closes "data" either way, and on success the path is  *)
(* returned and pre_parse_s3 returns (path, size), line 72.                *)
(***************************************************************************)
Fetch(i, objects) ==
  /\ pc[i] = "fetch"
  /\ fetchCalls' = [fetchCalls EXCEPT ![i] = @ + 1]
  /\ \/ \E o \in objects :
          /\ obj' = [obj EXCEPT ![i] = o]
          /\ fs'  = (path[i] :> [bytes |-> o,
                                 owner |-> IF path[i] \in DOMAIN fs
                                           THEN fs[path[i]].owner ELSE i]) @@ fs
          /\ foreign' = (foreign \/ Foreign(i, path[i]))
          /\ fds' = [fds EXCEPT ![i] = @ \ {"data"}]
          /\ ret' = [ret EXCEPT ![i] = <<path[i], size[i]>>]
          /\ pc'  = [pc EXCEPT ![i] = "returned"]
          /\ UNCHANGED <<err, site>>
     \/ /\ Raise(i, AfterFetchError, "ClientError", "fetch")
        /\ fds' = [fds EXCEPT ![i] = @ \ {"data"}]
        /\ UNCHANGED <<obj, fs, foreign, ret>>
  /\ UNCHANGED <<key, size, path, iter, src, buf, num, out,
                 nTrunc, nRemove, logged, second, holds, raw, nOpen, ops>>

(***************************************************************************)
(* read_s3_file is a generator function: calling it runs none of its body. *)
(* The consumer calls it on the returned path; nothing in the code stops a *)
(* consumer from calling it again on the same path once a generator ended. *)
(***************************************************************************)
ReadS3File(i) ==
  /\ pc[i] \in {"returned"} \cup GenEnded
  /\ iter[i] < MaxIter
  /\ iter' = [iter EXCEPT ![i] = @ + 1]
  /\ pc'   = [pc EXCEPT ![i] = "gen_new"]
  /\ src'  = [src EXCEPT ![i] = <<>>]
  /\ buf'  = [buf EXCEPT ![i] = NoBuf]
  /\ num'  = [num EXCEPT ![i] = 0]
  /\ out'  = [out EXCEPT ![i] = <<>>]
  /\ ops'  = [ops EXCEPT ![i] = <<>>]
  /\ err'  = [err EXCEPT ![i] = "none"]
  /\ site' = [site EXCEPT ![i] = "none"]
  /\ UNCHANGED <<key, size, path, fetchCalls, obj, nTrunc, nRemove, logged,
                 second, holds, fs, foreign, raw, ret, fds, nOpen>>

\* the pair of lines 104 and 107: enumerate() counts from 0
EnumerateFrom1(n, line) == <<n + 1, RStrip(line)>>

Enumerate(n, line) == <<n, RStrip(line)>>

\* the call that opens the file, line 103 or line 106
OpenCall(p) == IF IsGzBranch(p) THEN "gzip.open" ELSE "open"

\* where control goes when the loop of line 103 or 106 ends: to line 111
AfterLoopNoTruncate == "gen_remove"

AfterLoop == "gen_truncate"

(***************************************************************************)
(* next() on a live generator, lines 100-107.  The first call opens the    *)
(* file (IOError when the path does not exist); every call reads one line  *)
(* and yields (num, line.rstrip()), or the read raises, or the loop ends   *)
(* and control falls through to the cleanup of lines 109-119.              *)
(***************************************************************************)
GenNext(i) ==
  /\ pc[i] \in {"gen_new", "gen_suspended"}
  /\ IF pc[i] = "gen_new" /\ path[i] \notin DOMAIN fs
     THEN /\ Raise(i, "gen_raised", "IOError", "gen_open")
          /\ UNCHANGED <<src, buf, num, out, ops>>
     ELSE LET s == IF pc[i] = "gen_new" THEN fs[path[i]].bytes ELSE src[i]
              b == IF pc[i] = "gen_new" THEN OpenLines(path[i], s) ELSE buf[i]
              o == IF pc[i] = "gen_new"
                   THEN Append(ops[i], OpenCall(path[i])) ELSE ops[i]
          IN  /\ src' = [src EXCEPT ![i] = s]
              /\ IF b.lines # <<>>
                 THEN /\ out' = [out EXCEPT ![i] =
                                   Append(@, Enumerate(num[i], Head(b.lines)))]
                      /\ num' = [num EXCEPT ![i] = @ + 1]
                      /\ buf' = [buf EXCEPT ![i] =
                                   [lines |-> Tail(b.lines), fail |-> b.fail]]
                      /\ ops' = [ops EXCEPT ![i] = Append(o, "yield")]
                      /\ pc'  = [pc EXCEPT ![i] = "gen_suspended"]
                      /\ UNCHANGED <<err, site>>
                 ELSE IF b.fail
                 THEN /\ Raise(i, "gen_raised", "IOError", "gen_read")
                      /\ buf' = [buf EXCEPT ![i] = b]
                      /\ ops' = [ops EXCEPT ![i] = o]
                      /\ UNCHANGED <<num, out>>
                 ELSE /\ pc'  = [pc EXCEPT ![i] = AfterLoop]
                      /\ buf' = [buf EXCEPT ![i] = b]
                      /\ ops' = [ops EXCEPT ![i] = o]
                      /\ UNCHANGED <<num, out, err, site>>
  /\ UNCHANGED <<key, size, path, fetchCalls, obj, iter, nTrunc, nRemove,
                 logged, second, holds, fs, foreign, raw, ret, fds, nOpen>>

(***************************************************************************)
(* The consumer stops early: it closes or drops the generator, Python      *)
(* raises GeneratorExit at the yield of line 104 or 107 (or discards a     *)
(* generator that never started), and no statement after the loop runs.    *)
(***************************************************************************)
GenClose(i) ==
  /\ pc[i] \in {"gen_new", "gen_suspended"}
  /\ pc' = [pc EXCEPT ![i] = "gen_closed"]
  /\ UNCHANGED <<key, size, path, err, site, fetchCalls, obj, iter, src, buf,
                 num, out, nTrunc, nRemove, logged, second, holds, fs, foreign,
                 raw, ret, fds, nOpen, ops>>

(***************************************************************************)
(* lines 111-112: open(path, 'w') truncates the file (and would create it) *)
(* or raises IOError, which leaves the generator.                          *)
(***************************************************************************)
Truncate(i) ==
  /\ pc[i] = "gen_truncate"
  /\ \/ /\ fs' = (path[i] :> [bytes |-> <<>>,
                              owner |-> IF path[i] \in DOMAIN fs
                                        THEN fs[path[i]].owner ELSE i]) @@ fs
        /\ foreign' = (foreign \/ Foreign(i, path[i]))
        /\ nTrunc'  = [nTrunc EXCEPT ![i] = @ + 1]
        /\ ops' = [ops EXCEPT ![i] = Append(@, "truncate")]
        /\ pc' = [pc EXCEPT ![i] = "gen_remove"]
        /\ UNCHANGED <<err, site>>
     \/ /\ Raise(i, "gen_raised", "IOError", "truncate")
        /\ UNCHANGED <<fs, foreign, nTrunc, ops>>
  /\ UNCHANGED <<key, size, path, fetchCalls, obj, iter, src, buf, num, out,
                 nRemove, logged, second, holds, raw, ret, fds, nOpen>>

(***************************************************************************)
(* line 115: os.remove(path) unlinks the name, or raises OSError (always   *)
(* when the name does not exist), which leaves the generator.              *)
(***************************************************************************)
Remove(i) ==
  /\ pc[i] = "gen_remove"
  /\ \/ /\ path[i] \in DOMAIN fs
        /\ fs' = [p \in DOMAIN fs \ {path[i]} |-> fs[p]]
        /\ foreign' = (foreign \/ Foreign(i, path[i]))
        /\ nRemove' = [nRemove EXCEPT ![i] = @ + 1]
        /\ holds'   = [holds EXCEPT ![i] = FALSE]
        /\ ops' = [ops EXCEPT ![i] = Append(@, "remove")]
        /\ pc' = [pc EXCEPT ![i] = "gen_verify"]
        /\ UNCHANGED <<err, site>>
     \/ /\ Raise(i, "gen_raised", "OSError", "remove")
        /\ UNCHANGED <<fs, foreign, nRemove, holds, ops>>
  /\ UNCHANGED <<key, size, path, fetchCalls, obj, iter, src, buf, num, out,
                 nTrunc, logged, second, raw, ret, fds, nOpen>>

(***************************************************************************)
(* lines 116-119: os.path.exists(path) chooses the log record; then the    *)
(* generator returns and the consumer sees the end of the sequence.        *)
(***************************************************************************)
Verify(i) ==
  /\ pc[i] = "gen_verify"
  /\ logged' = [logged EXCEPT ![i] =
                  IF path[i] \notin DOMAIN fs THEN "debug" ELSE "error"]
  /\ ops' = [ops EXCEPT ![i] = Append(@, "exists")]
  /\ pc' = [pc EXCEPT ![i] = "gen_done"]
  /\ UNCHANGED <<key, size, path, err, site, fetchCalls, obj, iter, src, buf,
                 num, out, nTrunc, nRemove, second, holds, fs, foreign,
                 raw, ret, fds, nOpen>>

(***************************************************************************)
(* next() on a generator that returned, raised or was closed: Python       *)
(* answers StopIteration, so a second loop over it ends at once.           *)
(***************************************************************************)
NextAfterEnd(i) ==
  /\ pc[i] \in GenEnded
  /\ second[i] = "none"
  /\ second' = [second EXCEPT ![i] = "StopIteration"]
  /\ UNCHANGED <<pc, key, size, path, err, site, fetchCalls, obj, iter, src,
                 buf, num, out, nTrunc, nRemove, logged, holds, fs, foreign,
                 raw, ret, fds, nOpen, ops>>

(***************************************************************************)
(* Spec: one invocation, every record, declared size and object; the       *)
(* consumer reads the returned path once.                                  *)
(* SpecConc: NumProcs overlapping invocations over one /tmp, each consumer *)
(* reading its path once.                                                  *)
(***************************************************************************)
ReadOnce(i) == iter[i] = 0 /\ ReadS3File(i)

Next ==
  \E i \in {1} :
    \/ PreParseS3(i, Records)
    \/ SizeCheck(i)
    \/ Mkstemp(i)
    \/ OpenWb(i)
    \/ Fetch(i, Objects)
    \/ ReadOnce(i)
    \/ GenNext(i)
    \/ GenClose(i)
    \/ Truncate(i)
    \/ Remove(i)
    \/ Verify(i)
    \/ NextAfterEnd(i)

Spec == Init /\ [][Next]_vars

NextConc ==
  \E i \in Procs :
    \/ PreParseS3(i, ConcRecords)
    \/ SizeCheck(i)
    \/ Mkstemp(i)
    \/ OpenWb(i)
    \/ Fetch(i, ConcObjects)
    \/ ReadOnce(i)
    \/ GenNext(i)
    \/ GenClose(i)
    \/ Truncate(i)
    \/ Remove(i)
    \/ Verify(i)

SpecConc == Init /\ [][NextConc]_vars

(***************************************************************************)
(* SpecKeys: one invocation, one small object, every key of KeyStrings.    *)
(***************************************************************************)
NextKeys ==
  \E i \in {1} :
    \/ PreParseS3(i, KeyRecords)
    \/ SizeCheck(i)
    \/ Mkstemp(i)
    \/ OpenWb(i)
    \/ Fetch(i, ConcObjects)
    \/ ReadOnce(i)
    \/ GenNext(i)
    \/ GenClose(i)
    \/ Truncate(i)
    \/ Remove(i)
    \/ Verify(i)

SpecKeys == Init /\ [][NextKeys]_vars

(***************************************************************************)
(* SpecAgain: one invocation over small inputs whose consumer iterates     *)
(* again: next() on an ended generator, and up to MaxIter read_s3_file     *)
(* calls on the same path.                                                 *)
(***************************************************************************)
NextAgain ==
  \E i \in {1} :
    \/ PreParseS3(i, ConcRecords)
    \/ SizeCheck(i)
    \/ Mkstemp(i)
    \/ OpenWb(i)
    \/ Fetch(i, ConcObjects)
    \/ ReadS3File(i)
    \/ GenNext(i)
    \/ GenClose(i)
    \/ Truncate(i)
    \/ Remove(i)
    \/ Verify(i)
    \/ NextAfterEnd(i)

SpecAgain == Init /\ [][NextAgain]_vars

(***************************************************************************)
(* Vocabulary of the properties.                                           *)
(***************************************************************************)
\* the invocation got past the size check of lines 139-142
Attempted(i) ==
  /\ pc[i] \notin {"idle", "size_check"}
  /\ ~(pc[i] = "failed" /\ site[i] \in {"pre_parse", "size_check"})

\* the temp file of invocation i is in the namespace
FilePresent(i) == path[i] # <<>> /\ path[i] \in DOMAIN fs

\* the generator read every line of its file: the loop of lines 103/106 ended
Consumed(i) ==
  \/ pc[i] \in {"gen_truncate", "gen_remove", "gen_verify", "gen_done"}
  \/ pc[i] = "gen_raised" /\ site[i] \in {"truncate", "remove"}

\* l without its trailing whitespace, computed from the last other character
StripTrailingWs(l) ==
  LET K == {n \in 1..Len(l) : l[n] \notin Whitespace}
  IN  IF K = {} THEN <<>>
      ELSE SubSeq(l, 1, CHOOSE n \in K : \A m \in K : m <= n)

\* l without its line terminator only
StripNewline(l) ==
  IF l # <<>> /\ l[Len(l)] = "\n" THEN SubSeq(l, 1, Len(l) - 1) ELSE l

\* the line contents the consumer received
OutLines(i) == [n \in 1..Len(out[i]) |-> out[i][n][2]]

(***************************************************************************)
(* C1: for every declared size s, the transfer is attempted if and only if *)
(* s <= 128 MiB; for every larger s the size error is raised and           *)
(* download_fileobj is never called.                                       *)
(***************************************************************************)
C1_SizeGate ==
  \A i \in Procs :
    (pc[i] \notin {"idle", "size_check"} /\ site[i] # "pre_parse") =>
      /\ Attempted(i) <=> size[i] <= Ceiling
      /\ size[i] > Ceiling =>
           /\ err[i] = "S3ObjectSizeError"
           /\ fetchCalls[i] = 0

(***************************************************************************)
(* C2: once the sequence over a materialized file has been fully consumed  *)
(* or has raised to its consumer, the temp file no longer exists.          *)
(***************************************************************************)
C2_FileGoneAfterEnd ==
  \A i \in Procs :
    (iter[i] = 1 /\ pc[i] \in {"gen_done", "gen_raised"}) => ~FilePresent(i)

(***************************************************************************)
(* C3: however the sequence ends (completion, error, early abandonment     *)
(* after k >= 0 lines) the file is absent and truncate and remove have     *)
(* each run exactly once.                                                  *)
(***************************************************************************)
C3_CleanupExactlyOnce ==
  \A i \in Procs :
    (iter[i] = 1 /\ pc[i] \in GenEnded) =>
      /\ ~FilePresent(i)
      /\ nTrunc[i] = 1
      /\ nRemove[i] = 1

(***************************************************************************)
(* C4: when _download_s3_object fails after mkstemp created the file, the  *)
(* file no longer exists when the error reaches the caller.                *)
(***************************************************************************)
C4_NoOrphanAfterFailedDownload ==
  \A i \in Procs :
    (pc[i] = "failed" /\ path[i] # <<>>) => ~FilePresent(i)

(***************************************************************************)
(* C5: after a sequence has been consumed and its file deleted, a second   *)
(* iteration attempt (on the same sequence, or through a new sequence over *)
(* the same path) fails with ResourceAlreadyConsumedError; it neither      *)
(* yields a line nor ends silently.                                        *)
(***************************************************************************)
C5_NotRestartable ==
  \A i \in Procs :
    (nRemove[i] >= 1 /\ ~FilePresent(i)) =>
      /\ second[i] # "none" => second[i] = "ResourceAlreadyConsumedError"
      /\ (iter[i] > 1 /\ pc[i] \in GenEnded) =>
           err[i] = "ResourceAlreadyConsumedError"

(***************************************************************************)
(* C6: when decompression fails after k >= 0 lines, the consumer observes  *)
(* an error on that step, and truncate and remove have run before it: the  *)
(* file is absent when the error is observed.                              *)
(***************************************************************************)
C6_CleanupBeforeCorruptError ==
  \A i \in Procs :
    (iter[i] = 1 /\ pc[i] = "gen_raised" /\ site[i] = "gen_read") =>
      /\ err[i] # "none"
      /\ ~FilePresent(i)
      /\ nTrunc[i] = 1
      /\ nRemove[i] = 1

(***************************************************************************)
(* C7: in every interleaving of invocations over one namespace the paths   *)
(* of the files they hold are pairwise distinct, and no invocation writes, *)
(* truncates or removes a file another invocation created.                 *)
(***************************************************************************)
C7_UniquePaths ==
  /\ \A i, j \in Procs :
       (i # j /\ holds[i] /\ holds[j]) => path[i] # path[j]
  /\ ~foreign

\* two invocations for the same key hold files, and one has truncated its own
C7_Witness ==
  \E i, j \in Procs :
    /\ i # j
    /\ key[i] = key[j]
    /\ holds[i] /\ holds[j]
    /\ nTrunc[i] = 1
    /\ pc[j] \in {"fetch", "returned", "gen_new", "gen_suspended"}

(***************************************************************************)
(* C8 (as stated): consuming the sequence over a multi-line plaintext      *)
(* object yields the lines of the object with only the trailing newline    *)
(* stripped; trailing spaces and tabs are preserved.                       *)
(***************************************************************************)
C8_OnlyNewlineStripped ==
  \A i \in Procs :
    LET L == FileLines(obj[i])
    IN  (iter[i] = 1 /\ Consumed(i) /\ obj[i] \in Texts /\ Len(L) >= 2
         /\ ~IsGzBranch(path[i])) =>
          OutLines(i) = [n \in 1..Len(L) |-> StripNewline(L[n])]

(***************************************************************************)
(* C8 (amended): consuming the sequence over a plaintext object yields the *)
(* lines of the object, each with all of its trailing whitespace stripped  *)
(* and the rest of the line, leading whitespace included, verbatim.        *)
(***************************************************************************)
C8_TrailingWhitespaceStripped ==
  \A i \in Procs :
    LET L == FileLines(obj[i])
    IN  (iter[i] = 1 /\ Consumed(i) /\ obj[i] \in Texts
         /\ ~IsGzBranch(path[i])) =>
          OutLines(i) = [n \in 1..Len(L) |-> StripTrailingWs(L[n])]

\* a consumed two-line object whose first line ends in a blank before "\n"
\* and whose second line starts with one
C8_Witness ==
  \E i \in Procs :
    /\ iter[i] = 1 /\ Consumed(i) /\ ~IsGzBranch(path[i])
    /\ obj[i] = <<" ", "\n", "\t">> \/ obj[i] = <<"\t", "\n", "a">>
    /\ Len(out[i]) = 2
    /\ out[i][1][2] = <<>>

(***************************************************************************)
(* C9: over a file of n lines the sequence yields exactly n pairs, indexed *)
(* 0, 1, ..., n-1 in that order, the pair of index k carrying line k of    *)
(* the source; on the plaintext branch and on the '.gz' branch alike.      *)
(***************************************************************************)
C9_ContiguousIndices ==
  \A i \in Procs :
    LET L == IF IsGzBranch(path[i])
             THEN IF src[i] # <<>> /\ src[i][1] = "GZ"
                  THEN FileLines(SelectSeq(src[i], LAMBDA c : c \in Alphabet))
                  ELSE <<>>
             ELSE FileLines(src[i])
    IN  /\ Len(out[i]) <= Len(L)
        /\ \A n \in 1..Len(out[i]) :
             /\ out[i][n][1] = n - 1
             /\ out[i][n][2] = StripTrailingWs(L[n])
        /\ (Consumed(i) /\ pc[i] # "gen_new") => Len(out[i]) = Len(L)

\* a gzip file of two lines, read to its end
C9_Witness ==
  \E i \in Procs :
    /\ IsGzBranch(path[i])
    /\ Consumed(i)
    /\ Len(out[i]) = 2
    /\ out[i][2][1] = 1

(***************************************************************************)
(* C10: when every line has been read, the consumer observes the normal    *)
(* end of the sequence and never an error, whichever cleanup step fails.   *)
(***************************************************************************)
C10_CleanupNeverRaises ==
  \A i \in Procs :
    Consumed(i) => pc[i] # "gen_raised"

\* the record is one the adapter has to reject: a required field is absent
\* or the declared size is not a non-negative integer
Malformed(r) ==
  \/ r.missing # "none"
  \/ r.size.kind # "int"
  \/ r.size.val < 0

\* pre_parse_s3 raised while reading the record
RejectedAtAdapter(i) == pc[i] = "failed" /\ site[i] = "pre_parse"

(***************************************************************************)
(* C11: whenever a required field is absent or the declared size is not a  *)
(* non-negative integer, pre_parse_s3 fails at the adapter; no temp file   *)
(* is created and the storage fetch is not called.  A negative size never  *)
(* reaches the transfer.                                                   *)
(***************************************************************************)
C11_MalformedRejected ==
  \A i \in Procs :
    Malformed(raw[i]) =>
      /\ path[i] = <<>>
      /\ fetchCalls[i] = 0
      /\ pc[i] \notin {"idle", "size_check"} => RejectedAtAdapter(i)

(***************************************************************************)
(* C12: one invocation calls the storage fetch at most once; when the call *)
(* fails the error reaches the caller, the invocation has ended, no second *)
(* fetch was made and no path was returned.                                *)
(***************************************************************************)
C12_NoRetry ==
  \A i \in Procs :
    /\ fetchCalls[i] <= 1
    /\ site[i] = "fetch" =>
         /\ pc[i] = "failed"
         /\ err[i] = "ClientError"
         /\ fetchCalls[i] = 1
         /\ ret[i] = <<>>
         /\ iter[i] = 0

\* the fetch failed after the file was created and the handle opened
C12_Witness ==
  \E i \in Procs :
    /\ pc[i] = "failed" /\ site[i] = "fetch"
    /\ fetchCalls[i] = 1
    /\ nOpen[i] = 1

\* the cleanup steps a generator performed, in order
CleanupOps(i) ==
  SelectSeq(ops[i], LAMBDA o : o \in {"truncate", "remove", "exists"})

CleanupOrder == <<"truncate", "remove", "exists">>

(***************************************************************************)
(* C13: in every execution the cleanup steps of a generator occur in the   *)
(* order truncate, remove, exists; no line is yielded after the truncate   *)
(* and the remove never happens before the truncate has completed.         *)
(***************************************************************************)
C13_CleanupOrder ==
  \A i \in Procs :
    /\ Len(CleanupOps(i)) <= 3
    /\ CleanupOps(i) = SubSeq(CleanupOrder, 1, Len(CleanupOps(i)))
    /\ \A a, b \in 1..Len(ops[i]) :
         (a < b /\ ops[i][a] = "truncate") => ops[i][b] # "yield"
    /\ pc[i] = "gen_done" => CleanupOps(i) = CleanupOrder

\* a generator yielded a line and then went through the whole cleanup
C13_Witness ==
  \E i \in Procs :
    /\ pc[i] = "gen_done"
    /\ Len(ops[i]) >= 5
    /\ ops[i][2] = "yield"
    /\ ops[i][Len(ops[i])] = "exists"

(***************************************************************************)
(* C14: when _download_s3_object returns a path, every handle it opened on *)
(* the temp file (the descriptor of mkstemp, the write handle of the       *)
(* fetch) is closed, and the destination handle was acquired once.         *)
(***************************************************************************)
C14_HandlesClosedAtReturn ==
  \A i \in Procs :
    ret[i] # <<>> =>
      /\ fds[i] = {}
      /\ nOpen[i] = 1

\* the key ends with the three characters ".gz"
EndsWithGz(k) ==
  /\ Len(k) >= 3
  /\ k[Len(k) - 2] = "."
  /\ k[Len(k) - 1] = "g"
  /\ k[Len(k)] = "z"

(***************************************************************************)
(* C15: the generator takes the decompressing branch if and only if the    *)
(* object key ends with the case-sensitive suffix ".gz"; the temp file     *)
(* name is a prefix followed by the key with every "/" replaced by "-".    *)
(* A key with ".gz" only in a directory component is read as plaintext.    *)
(***************************************************************************)
C15_GzBranchIffKeySuffix ==
  \A i \in Procs :
    /\ path[i] # <<>> =>
         /\ Len(path[i]) = 9 + Len(key[i])
         /\ \A n \in 1..Len(key[i]) :
              path[i][9 + n] = IF key[i][n] = "/" THEN "-" ELSE key[i][n]
    /\ ops[i] # <<>> =>
         /\ ops[i][1] \in {"gzip.open", "open"}
         /\ ops[i][1] = "gzip.open" <=> EndsWithGz(key[i])

\* a key with ".gz" in its directory component only, opened as plaintext
C15_Witness ==
  \E i \in Procs :
    /\ key[i] = <<".", "g", "z", "/", "g">>
    /\ ops[i] # <<>>
    /\ ops[i][1] = "open"

SizeRejected(i) == pc[i] = "failed" /\ site[i] = "size_check"

(***************************************************************************)
(* C17: whenever _download_s3_object raises the size error, nothing was    *)
(* done before the check: the invocation created no temp file, opened,     *)
(* truncated and removed none, and no file of the namespace is its own.    *)
(***************************************************************************)
C17_RejectionLeavesFsUntouched ==
  \A i \in Procs :
    SizeRejected(i) =>
      /\ err[i] = "S3ObjectSizeError"
      /\ path[i] = <<>>
      /\ fds[i] = {}
      /\ fetchCalls[i] = 0
      /\ nOpen[i] = 0 /\ nTrunc[i] = 0 /\ nRemove[i] = 0
      /\ \A p \in DOMAIN fs : fs[p].owner # i

\* the first size the check rejects
C17_Witness ==
  \E i \in Procs :
    /\ SizeRejected(i)
    /\ size[i] = 129 * MiB
    /\ DOMAIN fs = {}

====
